---- MODULE Spec2Model ----
(***************************************************************************)
(* Porsha: the disk tab (gui/disk_tab.py), its background worker           *)
(* (gui/worker.py) and the disk image handler (tools/disk_analysis.py).    *)
(*                                                                         *)
(* Two threads of control are modelled: the interactive (GUI) thread,      *)
(* which runs the DiskTab slots one at a time from its event queue, and    *)
(* one QThread per dispatched task, which runs DiskAnalysisWorker.run.     *)
(* Signals emitted by a worker towards DiskTab slots are queued            *)
(* connections: they are appended to the GUI thread's event queue and      *)
(* handled later, in order.                                                *)
(*                                                                         *)
(* A Python optional value is a sequence of length 0 (None) or 1.          *)
(***************************************************************************)
EXTENDS Integers, Sequences, FiniteSets, TLC

None == << >>
Some(x) == << x >>
Val(o) == o[1]

(***************************************************************************)
(* Bounds of the model.                                                    *)
(***************************************************************************)
MaxTasks == 3

Tasks == 1 .. MaxTasks

(***************************************************************************)
(* The forensic collaborator (pytsk3), as a small catalogue of images.     *)
(*   "a"  partition table with two partitions; the filesystem of           *)
(*        partition 0 is corrupt, the one of partition 1 opens             *)
(*   "b"  no partition table; a filesystem at offset 0                     *)
(*   "c"  the image itself cannot be opened                                *)
(*   "d"  reading the volume system fails with an unclassified error       *)
(*   "e"  no partition table; a filesystem at offset 0 whose directories   *)
(*        cannot be read                                                   *)
(***************************************************************************)
Images == {"a", "b", "c", "d", "e"}

\* pytsk3.Img_Info(url=image_path) succeeds
ImgOpens(img) == img # "c"

\* outcome of pytsk3.Volume_Info(img_info): a partition table, IOError, or
\* another exception
VolumeSystem(img) ==
    CASE img = "a" -> "table"
      [] img = "d" -> "fault"
      [] OTHER     -> "ioerror"

\* the partitions the collaborator iterates, in its order
Partitions(img) ==
    IF img = "a"
    THEN << [addr |-> 0, desc |-> "Linux (0x83)", start |-> 1, len |-> 2,
             flags |-> "1"],
            [addr |-> 1, desc |-> "NTFS (0x07)", start |-> 3, len |-> 4,
             flags |-> "1"] >>
    ELSE << >>

\* Volume_Info.block_size, and the default of getattr(.., 'block_size', 512)
SectorSize == 512

\* img_info.get_size() // img_info.get_block_size()
ImgSectors(img) == 8

\* pytsk3.FS_Info(img_info, offset=byteOffset) succeeds (else IOError)
FsOpens(img, byteOffset) ==
    \/ img = "a" /\ byteOffset = 3 * SectorSize
    \/ img \in {"b", "e"} /\ byteOffset = 0

\* fs_info.info.root_inum
RootInum == 2

DIR == "TSK_FS_META_TYPE_DIR"
REG == "TSK_FS_META_TYPE_REG"

\* A name is a sequence of character codes (ASCII).
NameDot    == << 46 >>
NameDotDot == << 46, 46 >>

\* the type of an entry whose metadata the collaborator could not load:
\* f.info.meta is None, and reading f.info.meta.type raises AttributeError
NoMeta == "no_meta"

\* the inode of a directory that holds such an entry after a readable one
OrphanInum == 50

\* what fs_info.open_dir(...) iterates: the directory's own inode and its
\* raw entries, or None when open_dir raises IOError
RawDirectory(img, byteOffset, path, inode) ==
    LET root == Some([addr |-> RootInum, entries |->
                 << [inode |-> 2, name |-> NameDot, type |-> DIR, unalloc |-> FALSE],
                    [inode |-> 2, name |-> NameDotDot, type |-> DIR, unalloc |-> FALSE],
                    [inode |-> 0, name |-> << 36, 77 >>, type |-> REG, unalloc |-> FALSE],
                    [inode |-> 7, name |-> << 66 >>, type |-> REG, unalloc |-> TRUE],
                    [inode |-> 42, name |-> << 68 >>, type |-> DIR, unalloc |-> FALSE],
                    [inode |-> 9, name |-> << 97 >>, type |-> REG, unalloc |-> FALSE] >>])
        sub  == Some([addr |-> 42, entries |->
                 << [inode |-> 42, name |-> NameDot, type |-> DIR, unalloc |-> FALSE],
                    [inode |-> 2, name |-> NameDotDot, type |-> DIR, unalloc |-> FALSE],
                    [inode |-> 12, name |-> << 36, 79 >>, type |-> REG, unalloc |-> FALSE],
                    [inode |-> 11, name |-> << 99 >>, type |-> REG, unalloc |-> FALSE],
                    [inode |-> 13, name |-> << 67 >>, type |-> REG, unalloc |-> FALSE] >>])
        orphan == Some([addr |-> OrphanInum, entries |->
                 << [inode |-> OrphanInum, name |-> NameDot, type |-> DIR, unalloc |-> FALSE],
                    [inode |-> 21, name |-> << 102 >>, type |-> REG, unalloc |-> FALSE],
                    [inode |-> 0, name |-> << 103 >>, type |-> NoMeta, unalloc |-> TRUE] >>])
    IN  IF ~FsOpens(img, byteOffset) \/ img = "e" THEN None
        ELSE IF inode # None
             THEN (IF Val(inode) = RootInum THEN root
                   ELSE IF Val(inode) = 42 THEN sub
                   ELSE IF Val(inode) = OrphanInum THEN orphan ELSE None)
             ELSE (IF path = Some("/") THEN root ELSE None)

(***************************************************************************)
(* tools/disk_analysis.py: DiskImageHandler.  A handler is a record; each  *)
(* method is an operator that returns the handler after the call together  *)
(* with the method's result.                                               *)
(***************************************************************************)

\* DiskImageHandler.__init__ (the caller checks ImgOpens first: the
\* constructor raises IOError otherwise)
NewHandler(img) ==
    [image_path |-> img, img_info |-> TRUE, volume_info |-> None,
     fs_info |-> None, partition_offset |-> None]

SyntheticDesc == "Potential Filesystem (No Partition Table)"

\* the dictionary of lines 53-59 with the start sector in place of the
\* partition's address
VolumeOfStartAsSlot(part) ==
    [slot |-> part.start, desc |-> part.desc, start_sector |-> part.start,
     num_sectors |-> part.len, flags |-> part.flags]

\* the dictionary appended for one partition (lines 53-59)
VolumeOf(part) ==
    [slot |-> part.addr, desc |-> part.desc, start_sector |-> part.start,
     num_sectors |-> part.len, flags |-> part.flags]

\* get_volume_info with every exception taken for a missing partition table
GetVolumeInfoAnyErrorSynthetic(h) ==
    IF VolumeSystem(h.image_path) = "table"
    THEN [h   |-> [h EXCEPT !.volume_info = Some(h.image_path)],
          ret |-> [i \in 1 .. Len(Partitions(h.image_path)) |->
                     VolumeOf(Partitions(h.image_path)[i])]]
    ELSE [h   |-> h,
          ret |-> << [slot |-> 0, desc |-> SyntheticDesc, start_sector |-> 0,
                      num_sectors |-> ImgSectors(h.image_path),
                      flags |-> "N/A"] >>]

\* get_volume_info with every exception answered by an empty list
GetVolumeInfoAnyErrorEmpty(h) ==
    IF VolumeSystem(h.image_path) = "table"
    THEN [h   |-> [h EXCEPT !.volume_info = Some(h.image_path)],
          ret |-> [i \in 1 .. Len(Partitions(h.image_path)) |->
                     VolumeOf(Partitions(h.image_path)[i])]]
    ELSE [h |-> h, ret |-> << >>]

\* DiskImageHandler.get_volume_info
GetVolumeInfo(h) ==
    LET vs == VolumeSystem(h.image_path)
    IN  CASE vs = "table" ->
               [h   |-> [h EXCEPT !.volume_info = Some(h.image_path)],
                ret |-> [i \in 1 .. Len(Partitions(h.image_path)) |->
                           VolumeOf(Partitions(h.image_path)[i])]]
          [] vs = "ioerror" ->
               [h   |-> h,
                ret |-> << [slot |-> 0, desc |-> SyntheticDesc,
                            start_sector |-> 0,
                            num_sectors |-> ImgSectors(h.image_path),
                            flags |-> "N/A"] >>]
          [] OTHER ->
               [h |-> h, ret |-> << >>]

\* volume_info.get_part_by_addr(partition_index)
GetPartByAddr(img, idx) ==
    LET hits == {i \in 1 .. Len(Partitions(img)) : Partitions(img)[i].addr = idx}
    IN  IF hits = {} THEN None ELSE Some(Partitions(img)[CHOOSE i \in hits : TRUE])

\* open_filesystem without the two tests of its arguments (lines 93-98)
OpenFilesystemUnchecked(h, partition_index, offset_sectors) ==
    LET h0 == [h EXCEPT !.fs_info = None, !.partition_offset = None]
        fail(calls) == [h |-> h0, ret |-> FALSE, calls |-> calls]
        open(off, calls) ==
            IF off # None /\ FsOpens(h.image_path, Val(off))
            THEN [h   |-> [h0 EXCEPT !.partition_offset = off,
                                     !.fs_info = Some([img |-> h.image_path,
                                                       offset |-> Val(off)])],
                  ret |-> TRUE, calls |-> Append(calls, "FS_Info")]
            ELSE fail(Append(calls, "FS_Info"))
    IN  IF partition_index # None
        THEN IF h.volume_info = None THEN fail(<< >>)
             ELSE LET part == GetPartByAddr(Val(h.volume_info), Val(partition_index))
                  IN  IF part = None THEN fail(<< "get_part_by_addr" >>)
                      ELSE open(Some(Val(part).start * SectorSize),
                                << "get_part_by_addr" >>)
        ELSE IF offset_sectors # None
        THEN open(Some(Val(offset_sectors) * SectorSize), << >>)
        ELSE open(None, << >>)

\* open_filesystem without the reset of lines 90-91: a call that returns
\* early leaves the handler as it was
OpenFilesystemNoReset(h, partition_index, offset_sectors) ==
    LET h0 == [h EXCEPT !.fs_info = None, !.partition_offset = None]
        early == [h |-> h, ret |-> FALSE, calls |-> << >>]
        open(off, calls) ==
            IF FsOpens(h.image_path, off)
            THEN [h   |-> [h0 EXCEPT !.partition_offset = Some(off),
                                     !.fs_info = Some([img |-> h.image_path,
                                                       offset |-> off])],
                  ret |-> TRUE, calls |-> Append(calls, "FS_Info")]
            ELSE [h |-> h0, ret |-> FALSE, calls |-> Append(calls, "FS_Info")]
    IN  IF partition_index # None /\ offset_sectors # None THEN early
        ELSE IF partition_index = None /\ offset_sectors = None THEN early
        ELSE IF partition_index # None
        THEN IF h.volume_info = None THEN early
             ELSE LET part == GetPartByAddr(Val(h.volume_info), Val(partition_index))
                  IN  IF part = None
                      THEN [early EXCEPT !.calls = << "get_part_by_addr" >>]
                      ELSE open(Val(part).start * SectorSize,
                                << "get_part_by_addr" >>)
        ELSE open(Val(offset_sectors) * SectorSize, << >>)

\* DiskImageHandler.open_filesystem.  Besides the handler after the call and
\* the returned value, the result lists the collaborator calls made
\* (volume_info.get_part_by_addr, pytsk3.FS_Info), in order.
OpenFilesystem(h, partition_index, offset_sectors) ==
    LET h0 == [h EXCEPT !.fs_info = None, !.partition_offset = None]
        fail(calls) == [h |-> h0, ret |-> FALSE, calls |-> calls]
        open(off, calls) ==
            IF FsOpens(h.image_path, off)
            THEN [h   |-> [h0 EXCEPT !.partition_offset = Some(off),
                                     !.fs_info = Some([img |-> h.image_path,
                                                       offset |-> off])],
                  ret |-> TRUE, calls |-> Append(calls, "FS_Info")]
            ELSE fail(Append(calls, "FS_Info"))
    IN  IF partition_index # None /\ offset_sectors # None THEN fail(<< >>)
        ELSE IF partition_index = None /\ offset_sectors = None THEN fail(<< >>)
        ELSE IF partition_index # None
        THEN IF h.volume_info = None THEN fail(<< >>)
             ELSE LET part == GetPartByAddr(Val(h.volume_info), Val(partition_index))
                  IN  IF part = None THEN fail(<< "get_part_by_addr" >>)
                      ELSE open(Val(part).start * SectorSize,
                                << "get_part_by_addr" >>)
        ELSE open(Val(offset_sectors) * SectorSize, << >>)

\* str.lower() on one character code
Lower(c) == IF c \in 65 .. 90 THEN c + 32 ELSE c

LowerName(name) == [i \in 1 .. Len(name) |-> Lower(name[i])]

\* Python's ordering of two strings: the first differing character decides,
\* a proper prefix is smaller
RECURSIVE StrLess(_, _)
StrLess(s, t) ==
    IF t = << >> THEN FALSE
    ELSE IF s = << >> THEN TRUE
    ELSE IF Head(s) # Head(t) THEN Head(s) < Head(t)
    ELSE StrLess(Tail(s), Tail(t))

\* the sort key without .lower()
KeyLessCaseSensitive(x, y) ==
    LET xb == x.type # DIR
        yb == y.type # DIR
    IN  IF xb # yb THEN yb
        ELSE StrLess(x.name, y.name)

\* the sort key (x['type'] != 'TSK_FS_META_TYPE_DIR', x['name'].lower()),
\* compared as Python compares tuples (False < True)
KeyLess(x, y) ==
    LET xb == x.type # DIR
        yb == y.type # DIR
    IN  IF xb # yb THEN yb
        ELSE StrLess(LowerName(x.name), LowerName(y.name))

\* list.sort is stable: an entry goes before the first one with a greater key
RECURSIVE InsertEntry(_, _)
InsertEntry(e, sorted) ==
    IF sorted = << >> THEN << e >>
    ELSE IF KeyLess(e, Head(sorted)) THEN << e >> \o sorted
    ELSE << Head(sorted) >> \o InsertEntry(e, Tail(sorted))

RECURSIVE SortEntries(_)
SortEntries(es) ==
    IF es = << >> THEN << >>
    ELSE InsertEntry(es[Len(es)], SortEntries(SubSeq(es, 1, Len(es) - 1)))

\* the listing loop without the test of the leading "$"
SkippedDotsOnly(f, dirAddr) ==
    f.name \in {NameDot, NameDotDot} /\ dirAddr # RootInum

\* the two "continue" tests of the listing loop
Skipped(f, dirAddr) ==
    \/ f.name \in {NameDot, NameDotDot} /\ dirAddr # RootInum
    \/ f.name # << >> /\ f.name[1] = 36

\* the dictionary built for one directory entry (mode, size and the four
\* timestamps are copied or formatted per entry and decide nothing here)
EntryOf(f) ==
    [inode |-> f.inode, name |-> f.name, type |-> f.type,
     is_deleted |-> f.unalloc]

RECURSIVE CollectEntries(_, _)
CollectEntries(raw, dirAddr) ==
    IF raw = << >> THEN << >>
    ELSE (IF Skipped(Head(raw), dirAddr) THEN << >> ELSE << EntryOf(Head(raw)) >>)
         \o CollectEntries(Tail(raw), dirAddr)

\* the loop reaches an entry without metadata: the name tests of lines
\* 163-167 come first, line 170 raises
IterationFails(raw, dirAddr) ==
    \E i \in DOMAIN raw : ~Skipped(raw[i], dirAddr) /\ raw[i].type = NoMeta

\* list_directory with only "except IOError": any other exception leaves
\* the method
ListDirectoryOutcomeOnlyIOError(h, path, inode) ==
    IF h.fs_info = None
    THEN [ret |-> << >>, raised |-> None, calls |-> << >>]
    ELSE LET fs == Val(h.fs_info)
             d  == IF inode # None
                   THEN RawDirectory(fs.img, fs.offset, None, inode)
                   ELSE RawDirectory(fs.img, fs.offset, path, None)
         IN  IF d = None
             THEN [ret |-> << >>, raised |-> None, calls |-> << "open_dir" >>]
             ELSE IF IterationFails(Val(d).entries, Val(d).addr)
             THEN [ret |-> << >>, raised |-> Some("AttributeError"),
                   calls |-> << "open_dir" >>]
             ELSE [ret |-> SortEntries(CollectEntries(Val(d).entries, Val(d).addr)),
                   raised |-> None, calls |-> << "open_dir" >>]

\* DiskImageHandler.list_directory: open_dir(inode=inode) when an inode is
\* given, open_dir(path=path) otherwise.  The outcome is the returned list,
\* the exception that leaves the method (None: both except blocks return
\* an empty list) and the collaborator calls made.
ListDirectoryOutcome(h, path, inode) ==
    IF h.fs_info = None
    THEN [ret |-> << >>, raised |-> None, calls |-> << >>]
    ELSE LET fs == Val(h.fs_info)
             d  == IF inode # None
                   THEN RawDirectory(fs.img, fs.offset, None, inode)
                   ELSE RawDirectory(fs.img, fs.offset, path, None)
             exc == IF d = None THEN Some("IOError")
                    ELSE IF IterationFails(Val(d).entries, Val(d).addr)
                    THEN Some("AttributeError")
                    ELSE None
         IN  IF exc # None
             THEN [ret |-> << >>, raised |-> None, calls |-> << "open_dir" >>]
             ELSE [ret |-> SortEntries(CollectEntries(Val(d).entries, Val(d).addr)),
                   raised |-> None, calls |-> << "open_dir" >>]

\* list_directory with "if inode:" in place of "if inode is not None:"
ListDirectoryTruthyInode(h, path, inode) ==
    IF inode # None /\ Val(inode) # 0
    THEN ListDirectoryOutcome(h, path, inode).ret
    ELSE ListDirectoryOutcome(h, path, None).ret

\* what list_directory returns
ListDirectory(h, path, inode) == ListDirectoryOutcome(h, path, inode).ret

\* DiskImageHandler.close
CloseHandler(h) ==
    IF h.img_info
    THEN [h EXCEPT !.img_info = FALSE, !.volume_info = None, !.fs_info = None]
    ELSE h

(***************************************************************************)
(* State.                                                                  *)
(*   app      "running", "closed" (the main window was closed and the      *)
(*            event loop left) or "crashed" (Qt aborted the process)       *)
(*   mainPc   where the GUI thread is: "idle" in its event loop,           *)
(*            "file_dialog" inside QFileDialog.getOpenFileName,            *)
(*            "wait_close"/"wait_browse" blocked in QThread.wait of        *)
(*            stop_analysis                                                *)
(*   tab      the fields and widgets of DiskTab (fs_status is the text of  *)
(*            fs_status_label, without its variable parts)                 *)
(*   dialogs  the modal message boxes that are open, innermost last        *)
(*   queue    the GUI thread's posted events (queued signal deliveries)    *)
(*   thr      per task: the DiskAnalysisWorker, its QThread and the        *)
(*            position of run                                              *)
(*   nTasks   how many workers have been created                           *)
(*   log      per task: the signals the worker emitted, in order, with     *)
(*            the marker "stop" where stop() set _is_running to false      *)
(*   handled  per task: the DiskTab slots run for that task's signals      *)
(* The fields raised, escaped, stopAt and collab of a worker record what   *)
(* happened (the exception raised in run, whether one left run, where run  *)
(* stood when stop() was called, the collaborator calls of the last        *)
(* open_filesystem); no action reads them.                                 *)
(***************************************************************************)
VARIABLES app, mainPc, tab, dialogs, queue, thr, nTasks, log, handled

vars == << app, mainPc, tab, dialogs, queue, thr, nTasks, log, handled >>

TaskKinds == {"get_volumes", "open_fs", "list_dir", "bogus"}

\* DiskTab.__init__
InitTab ==
    [image_path |-> None, disk_thread |-> None, disk_worker |-> None,
     selected_partition_index |-> None, selected_offset |-> None,
     current_fs_open |-> FALSE, browse_enabled |-> TRUE,
     volume_table |-> << >>, file_listing |-> << >>,
     fs_status |-> "No filesystem selected/opened."]

NoWorker ==
    [task |-> "none", image_path |-> "", partition_index |-> None,
     offset_sectors |-> None, list_path |-> None, inode |-> None,
     conn |-> {}, is_running |-> FALSE, pc |-> "none", handler |-> None,
     success |-> FALSE, result |-> << >>, raised |-> None, escaping |-> FALSE,
     escaped |-> FALSE, tstate |-> "none", quitReq |-> FALSE,
     delPending |-> FALSE, deleted |-> FALSE, stopAt |-> "none",
     collab |-> << >>]

\* the signals _start_disk_analysis connects to DiskTab slots
Connections(task) ==
    {"finished", "error", "progress"}
    \cup (CASE task = "get_volumes" -> {"volume_info_ready"}
            [] task = "open_fs"     -> {"filesystem_opened"}
            [] task = "list_dir"    -> {"directory_listing_ready",
                                        "filesystem_opened"}
            [] OTHER                -> {})

\* BaseWorker.__init__, moveToThread and QThread.start
NewWorker(task, img, pidx, off, lpath, ino) ==
    [NoWorker EXCEPT !.task = task, !.image_path = img,
                     !.partition_index = pidx, !.offset_sectors = off,
                     !.list_path = lpath, !.inode = ino,
                     !.conn = Connections(task), !.is_running = TRUE,
                     !.pc = "start", !.tstate = "running"]

\* QThread.isRunning
IsRunning(t) == thr[t].tstate \in {"running", "finishing"}

\* IsBusy with the test of the running thread lost
IsBusyNever(tb) == FALSE

\* the guard of line 135: self._disk_thread and self._disk_thread.isRunning()
IsBusy(tb) == tb.disk_thread # None /\ IsRunning(Val(tb.disk_thread))

Init ==
    /\ app = "running"
    /\ mainPc = "idle"
    /\ tab = InitTab
    /\ dialogs = << >>
    /\ queue = << >>
    /\ thr = [t \in Tasks |-> NoWorker]
    /\ nTasks = 0
    /\ log = [t \in Tasks |-> << >>]
    /\ handled = [t \in Tasks |-> << >>]

(***************************************************************************)
(* gui/disk_tab.py: the slots of DiskTab.                                  *)
(***************************************************************************)

\* _start_disk_analysis with the "return" after the busy warning lost
StartDiskAnalysisNoReturn(tb, task, pidx, off, lpath, ino) ==
    /\ tb.image_path # None
    /\ nTasks < MaxTasks
    /\ tab' = [tb EXCEPT !.browse_enabled = FALSE,
                         !.disk_thread = Some(nTasks + 1),
                         !.disk_worker = Some(nTasks + 1)]
    /\ thr' = [thr EXCEPT ![nTasks + 1] =
                  NewWorker(task, Val(tb.image_path), pidx, off, lpath, ino)]
    /\ nTasks' = nTasks + 1
    /\ dialogs' = IF IsBusy(tb) THEN Append(dialogs, "Busy") ELSE dialogs

\* DiskTab._start_disk_analysis, called with the tab as the calling slot
\* left it
StartDiskAnalysis(tb, task, pidx, off, lpath, ino) ==
    IF tb.image_path = None
    THEN /\ tab' = tb
         /\ dialogs' = Append(dialogs, "No Image")
         /\ UNCHANGED << thr, nTasks >>
    ELSE IF IsBusy(tb)
    THEN /\ tab' = tb
         /\ dialogs' = Append(dialogs, "Busy")
         /\ UNCHANGED << thr, nTasks >>
    ELSE /\ nTasks < MaxTasks
         /\ tab' = [tb EXCEPT !.browse_enabled = FALSE,
                              !.disk_thread = Some(nTasks + 1),
                              !.disk_worker = Some(nTasks + 1)]
         /\ thr' = [thr EXCEPT ![nTasks + 1] =
                       NewWorker(task, Val(tb.image_path), pidx, off, lpath, ino)]
         /\ nTasks' = nTasks + 1
         /\ UNCHANGED dialogs

\* DiskTab._on_disk_analysis_finished, as far as the tab's fields go
Cleanup(tb) ==
    [tb EXCEPT !.browse_enabled = TRUE, !.disk_thread = None,
               !.disk_worker = None]

\* the test of line 233 with a needle no description contains
IsPotentialFilesystemNever(desc) == FALSE

\* "Potential Filesystem" in desc
IsPotentialFilesystem(desc) == desc = SyntheticDesc

\* the test of DiskTab._show_error for a popup; the messages are the one of
\* worker.py line 126, "Disk analysis error: ..." of line 139 and
\* "Could not open filesystem ..." of disk_tab.py line 253
OpenFailedMessage == "Failed to open filesystem before listing directory."

\* _show_error with the popup reserved for "Requirement Error"
IsPopupRequirementOnly(msg) == FALSE

IsPopupMessage(msg) == msg = OpenFailedMessage

\* DiskTab.stop_analysis up to QThread.wait: BaseWorker.stop, QThread.quit.
\* stop() on a worker that deleteLater has already deleted raises
\* RuntimeError at progress.emit, after _is_running was cleared: closeEvent
\* of the main window catches it, a slot does not.
StopAnalysisBegin(caller) ==
    LET t == Val(tab.disk_thread)
    IN  IF ~IsBusy(tab)
        THEN /\ IF caller = "close"
                THEN app' = "closed" /\ mainPc' = mainPc
                ELSE app' = app /\ mainPc' = "file_dialog"
             /\ UNCHANGED << thr, log >>
        ELSE IF thr[t].deleted
        THEN /\ thr' = [thr EXCEPT ![t].is_running = FALSE,
                                   ![t].stopAt = thr[t].pc]
             /\ log' = [log EXCEPT ![t] = Append(@, "stop")]
             /\ app' = IF caller = "close" THEN "closed" ELSE "crashed"
             /\ UNCHANGED mainPc
        ELSE /\ thr' = [thr EXCEPT ![t].is_running = FALSE,
                                   ![t].stopAt = thr[t].pc,
                                   ![t].quitReq = TRUE]
             /\ log' = [log EXCEPT ![t] = @ \o << "stop", "progress" >>]
             /\ mainPc' = IF caller = "close" THEN "wait_close" ELSE "wait_browse"
             /\ UNCHANGED app

\* MainWindow.closeEvent: DiskTab.stop_analysis, then the window closes
CloseEvent ==
    /\ app = "running" /\ mainPc = "idle" /\ dialogs = << >>
    /\ StopAnalysisBegin("close")
    /\ UNCHANGED << tab, dialogs, queue, nTasks, handled >>

\* DiskTab._browse_image up to the file dialog: stop_analysis, then
\* QFileDialog.getOpenFileName opens
BrowseClick ==
    /\ app = "running" /\ mainPc = "idle" /\ dialogs = << >>
    /\ tab.browse_enabled
    /\ StopAnalysisBegin("browse")
    /\ UNCHANGED << tab, dialogs, queue, nTasks, handled >>

\* DiskTab.stop_analysis from QThread.wait(2000) on: the wait returns
\* because the thread finished or because the grace period ran out, and
\* then the thread is terminated; _on_disk_analysis_finished is called
StopAnalysisEnd ==
    /\ app = "running" /\ mainPc \in {"wait_close", "wait_browse"}
    /\ LET t == Val(tab.disk_thread)
       IN  IF thr[t].tstate = "finished"
           THEN UNCHANGED << thr, queue >>
           ELSE /\ thr' = [thr EXCEPT ![t].tstate = "finished",
                                      ![t].pc = "killed"]
                /\ queue' = IF thr[t].tstate = "running"
                            THEN Append(queue, [sig |-> "thread_finished",
                                                t |-> t, arg |-> << >>])
                            ELSE queue
    /\ tab' = Cleanup(tab)
    /\ handled' = [handled EXCEPT ![Val(tab.disk_thread)] =
                      Append(@, "_on_disk_analysis_finished")]
    /\ IF mainPc = "wait_close"
       THEN app' = "closed" /\ mainPc' = "idle"
       ELSE app' = app /\ mainPc' = "file_dialog"
    /\ UNCHANGED << dialogs, nTasks, log >>

\* lines 115-122 with the reset of the navigation context lost
ResetForImageKeepsContext(tb, path) ==
    [tb EXCEPT !.image_path = Some(path),
               !.volume_table = << >>,
               !.file_listing = << >>,
               !.fs_status = "Image selected."]

\* lines 115-122 of _browse_image: the new path, both tables cleared, the
\* navigation context reset
ResetForImage(tb, path) ==
    [tb EXCEPT !.image_path = Some(path),
               !.volume_table = << >>,
               !.file_listing = << >>,
               !.selected_partition_index = None,
               !.selected_offset = None,
               !.current_fs_open = FALSE,
               !.fs_status = "Image selected."]

\* DiskTab._browse_image from the return of the file dialog on
BrowseChoose(path) ==
    /\ app = "running" /\ mainPc = "file_dialog" /\ dialogs = << >>
    /\ mainPc' = "idle"
    /\ IF path # ""
       THEN StartDiskAnalysis(ResetForImage(tab, path),
                              "get_volumes", None, None, None, None)
       ELSE /\ tab' = [tab EXCEPT !.image_path = None]
            /\ UNCHANGED << dialogs, thr, nTasks >>
    /\ UNCHANGED << app, queue, log, handled >>

\* lines 222-235 with the start sector of a partition not kept
VolumeContextIndexOnly(tb, vol) ==
    [tb EXCEPT !.file_listing = << >>,
               !.selected_partition_index =
                   IF IsPotentialFilesystem(vol.desc) THEN None ELSE Some(vol.slot),
               !.selected_offset =
                   IF IsPotentialFilesystem(vol.desc) THEN Some(0) ELSE None,
               !.current_fs_open = FALSE]

\* lines 222-235 of _volume_selected: the listing is cleared and the
\* navigation context is taken from the volume's row, or set to offset 0
\* without a partition index for the whole-image volume
VolumeContext(tb, vol) ==
    LET tb1 == [tb EXCEPT !.file_listing = << >>,
                          !.selected_partition_index = Some(vol.slot),
                          !.selected_offset = Some(vol.start_sector),
                          !.current_fs_open = FALSE]
    IN  IF IsPotentialFilesystem(vol.desc)
        THEN [tb1 EXCEPT !.selected_partition_index = None,
                         !.selected_offset = Some(0)]
        ELSE tb1

\* DiskTab._volume_selected
VolumeSelected(row) ==
    /\ app = "running" /\ mainPc = "idle" /\ dialogs = << >>
    /\ row \in 1 .. Len(tab.volume_table)
    /\ LET vol == tab.volume_table[row]
           tb1 == VolumeContext(tab, vol)
       IN  IF IsPotentialFilesystem(vol.desc)
           THEN StartDiskAnalysis(tb1, "list_dir", None, Some(0), Some("/"), None)
           ELSE StartDiskAnalysis(tb1, "list_dir", tb1.selected_partition_index,
                                  None, Some("/"), None)
    /\ UNCHANGED << app, mainPc, queue, log, handled >>

\* lines 345-348 with both keyword arguments always passed
NavKwargsBoth(tb) ==
    Some([partition_index |-> tb.selected_partition_index,
          offset_sectors |-> tb.selected_offset])

\* lines 345-348 with the two tests in the other order
NavKwargsOffsetFirst(tb) ==
    IF tb.selected_offset # None
    THEN Some([partition_index |-> None, offset_sectors |-> tb.selected_offset])
    ELSE IF tb.selected_partition_index # None
    THEN Some([partition_index |-> tb.selected_partition_index,
               offset_sectors |-> None])
    ELSE None

\* the keyword arguments _file_double_clicked takes from the navigation
\* context (lines 345-351), None when the context holds neither
NavKwargs(tb) ==
    IF tb.selected_partition_index # None
    THEN Some([partition_index |-> tb.selected_partition_index,
               offset_sectors |-> None])
    ELSE IF tb.selected_offset # None
    THEN Some([partition_index |-> None, offset_sectors |-> tb.selected_offset])
    ELSE None

\* the test of line 333 taken by every entry
IsDirectoryEntryAlways(e) == TRUE

\* file_type == 'TSK_FS_META_TYPE_DIR'
IsDirectoryEntry(e) == e.type = DIR

\* DiskTab._file_double_clicked on a row of the file listing.  The message
\* of line 350 opens no popup (_show_error); a file that is not a directory
\* opens the "File Clicked" information box.
FileDoubleClicked(row) ==
    /\ app = "running" /\ mainPc = "idle" /\ dialogs = << >>
    /\ row \in 1 .. Len(tab.file_listing)
    /\ LET e  == tab.file_listing[row]
           kw == NavKwargs(tab)
       IN  IF ~tab.current_fs_open
           THEN UNCHANGED << tab, dialogs, thr, nTasks >>
           ELSE IF ~IsDirectoryEntry(e)
           THEN /\ dialogs' = Append(dialogs, "File Clicked")
                /\ UNCHANGED << tab, thr, nTasks >>
           ELSE IF kw = None
           THEN /\ tab' = [tab EXCEPT !.fs_status = "Loading directory."]
                /\ UNCHANGED << dialogs, thr, nTasks >>
           ELSE StartDiskAnalysis([tab EXCEPT !.fs_status = "Loading directory."],
                                  "list_dir", Val(kw).partition_index,
                                  Val(kw).offset_sectors, None, Some(e.inode))
    /\ UNCHANGED << app, mainPc, queue, log, handled >>

\* a modal message box is dismissed; the slot that opened it has nothing
\* left to do
DismissDialog ==
    /\ app = "running" /\ dialogs # << >>
    /\ mainPc \in {"idle", "file_dialog"}
    /\ dialogs' = SubSeq(dialogs, 1, Len(dialogs) - 1)
    /\ UNCHANGED << app, mainPc, tab, queue, thr, nTasks, log, handled >>

\* DiskTab._display_volumes
DisplayVolumes(tb, volumes) ==
    [tb EXCEPT !.volume_table = volumes,
               !.fs_status = IF volumes = << >> THEN "No volumes/partitions found."
                             ELSE "Volumes loaded."]

\* DiskTab._on_filesystem_opened (its _show_error message opens no popup)
OnFilesystemOpened(tb, success) ==
    [tb EXCEPT !.current_fs_open = success,
               !.fs_status = IF success THEN "Filesystem Opened."
                             ELSE "Failed to open filesystem."]

\* DiskTab._display_directory_listing
DisplayDirectoryListing(tb, entries) ==
    IF ~tb.current_fs_open THEN [tb EXCEPT !.file_listing = << >>]
    ELSE IF entries = << >>
    THEN [tb EXCEPT !.file_listing = << >>,
                    !.fs_status = "Directory is empty or unreadable."]
    ELSE [tb EXCEPT !.file_listing = entries]

\* the slot connected to each signal
SlotOf(sig) ==
    CASE sig = "volume_info_ready"       -> "_display_volumes"
      [] sig = "filesystem_opened"       -> "_on_filesystem_opened"
      [] sig = "directory_listing_ready" -> "_display_directory_listing"
      [] sig = "error"                   -> "_show_error"
      [] sig = "finished"                -> "quit"
      [] sig = "thread_finished"         -> "_on_disk_analysis_finished"
      [] OTHER                           -> "lambda"

\* The GUI thread's event loop (also the nested loop of a modal dialog)
\* takes the first queued signal and runs the slot connected to it.
\* Dropping the last reference to a QThread that is still running aborts
\* the process ("QThread: Destroyed while thread is still running"); the
\* destructor waits for a thread that is already finishing.
Deliver ==
    /\ app = "running" /\ queue # << >>
    /\ mainPc \in {"idle", "file_dialog"}
    /\ LET e == Head(queue)
           cur == tab.disk_thread
       IN  /\ queue' = Tail(queue)
           /\ handled' = [handled EXCEPT ![e.t] = Append(@, SlotOf(e.sig))]
           /\ CASE e.sig = "volume_info_ready" ->
                     /\ tab' = DisplayVolumes(tab, e.arg)
                     /\ UNCHANGED << app, dialogs, thr >>
                [] e.sig = "filesystem_opened" ->
                     /\ tab' = OnFilesystemOpened(tab, e.arg[1])
                     /\ UNCHANGED << app, dialogs, thr >>
                [] e.sig = "directory_listing_ready" ->
                     /\ tab' = DisplayDirectoryListing(tab, e.arg)
                     /\ UNCHANGED << app, dialogs, thr >>
                [] e.sig = "error" ->
                     /\ dialogs' = IF IsPopupMessage(e.arg)
                                   THEN Append(dialogs, "Disk Analysis Error")
                                   ELSE dialogs
                     /\ UNCHANGED << app, tab, thr >>
                [] e.sig = "finished" ->
                     /\ thr' = [thr EXCEPT ![e.t].quitReq = TRUE]
                     /\ UNCHANGED << app, tab, dialogs >>
                [] e.sig = "thread_finished" ->
                     /\ tab' = Cleanup(tab)
                     /\ IF cur # None /\ thr[Val(cur)].tstate = "running"
                        THEN app' = "crashed" /\ thr' = thr
                        ELSE IF cur # None /\ thr[Val(cur)].tstate = "finishing"
                        THEN /\ app' = app
                             /\ thr' = [thr EXCEPT ![Val(cur)].tstate = "finished"]
                        ELSE UNCHANGED << app, thr >>
                     /\ UNCHANGED dialogs
    /\ UNCHANGED << mainPc, nTasks, log >>

(***************************************************************************)
(* gui/worker.py: DiskAnalysisWorker.run, one action per stretch of code   *)
(* between two reads of _is_running or two emissions.                      *)
(***************************************************************************)

\* signal.emit: a signal connected to a DiskTab slot is queued for the GUI
\* thread; progress runs a lambda that only writes to the status bar
Emitted(t, sig, arg) ==
    IF sig \in thr[t].conn /\ sig # "progress"
    THEN Append(queue, [sig |-> sig, t |-> t, arg |-> arg])
    ELSE queue

\* run with "except IOError" in place of "except Exception"
CaughtOnlyIOError(kind) == kind = "IOError"

\* "except Exception" of run catches every exception the body can raise
CaughtByRun(kind) == kind \in {"IOError", "ValueError", "NameError"}

\* run with an except block that emits nothing
RaiseSwallowed(w, kind) == [w EXCEPT !.raised = Some(kind), !.pc = "finally"]

\* an exception of the given kind is raised inside the try block
Raise(w, kind) ==
    IF CaughtByRun(kind)
    THEN [w EXCEPT !.raised = Some(kind), !.pc = "except"]
    ELSE [w EXCEPT !.raised = Some(kind), !.pc = "finally", !.escaping = TRUE]

Live(t) == app = "running" /\ thr[t].tstate = "running"

\* lines 90-100: read kwargs, progress, DiskImageHandler(image_path)
StartStep(w) ==
    IF ImgOpens(w.image_path)
    THEN [w EXCEPT !.handler = Some(NewHandler(w.image_path)), !.pc = "call"]
    ELSE Raise(w, "IOError")

RunStart(t) ==
    /\ Live(t) /\ thr[t].pc = "start"
    /\ log' = [log EXCEPT ![t] = Append(@, "progress")]
    /\ thr' = [thr EXCEPT ![t] = StartStep(@)]
    /\ UNCHANGED << app, mainPc, tab, dialogs, queue, nTasks, handled >>

\* the collaborator calls of lines 102-133
CallStep(w) ==
    LET h == Val(w.handler)
    IN  IF w.pc = "list"
        THEN [w EXCEPT !.result = ListDirectory(h, w.list_path, w.inode),
                       !.pc = "check"]
        ELSE CASE w.task = "get_volumes" ->
                    LET r == GetVolumeInfo(h)
                    IN  [w EXCEPT !.handler = Some(r.h), !.result = r.ret,
                                  !.pc = "check"]
               [] w.task = "open_fs" ->
                    LET r == OpenFilesystem(h, w.partition_index, w.offset_sectors)
                    IN  [w EXCEPT !.handler = Some(r.h), !.success = r.ret,
                                  !.collab = r.calls, !.pc = "check"]
               [] w.task = "list_dir" ->
                    LET r == OpenFilesystem(h, w.partition_index, w.offset_sectors)
                    IN  [w EXCEPT !.handler = Some(r.h), !.success = r.ret,
                                  !.collab = r.calls,
                                  !.pc = IF r.ret THEN "list" ELSE "check"]
               [] OTHER -> Raise(w, "ValueError")

RunCall(t) ==
    /\ Live(t) /\ thr[t].pc \in {"call", "list"}
    /\ log' = [log EXCEPT ![t] =
                 IF thr[t].task \in {"get_volumes", "open_fs", "list_dir"}
                 THEN Append(@, "progress") ELSE @]
    /\ thr' = [thr EXCEPT ![t] = CallStep(@)]
    /\ UNCHANGED << app, mainPc, tab, dialogs, queue, nTasks, handled >>

\* "if not self._is_running: return" of lines 105, 110, 125, 130 and 136,
\* and what follows up to the emission
CheckStep(w) ==
    IF ~w.is_running THEN [w EXCEPT !.pc = "finally"]
    ELSE IF w.pc = "except" THEN [w EXCEPT !.pc = "except_emit"]
    ELSE IF w.task = "open_fs" /\ w.success /\ Val(w.handler).fs_info # None
    THEN Raise(w, "NameError")
    ELSE [w EXCEPT !.pc = "emit"]

RunCheck(t) ==
    /\ Live(t) /\ thr[t].pc \in {"check", "except"}
    /\ thr' = [thr EXCEPT ![t] = CheckStep(@)]
    /\ UNCHANGED << app, mainPc, tab, dialogs, queue, nTasks, log, handled >>

\* the payload a run emits at lines 106, 115, 126, 131 and 139
Payload(w) ==
    IF w.pc = "except_emit"
    THEN [sig |-> "error", arg |-> "Disk analysis error"]
    ELSE CASE w.task = "get_volumes" ->
                [sig |-> "volume_info_ready", arg |-> w.result]
           [] w.task = "open_fs" ->
                [sig |-> "filesystem_opened", arg |-> << w.success, "" >>]
           [] w.task = "list_dir" /\ ~w.success ->
                [sig |-> "error", arg |-> OpenFailedMessage]
           [] OTHER ->
                [sig |-> "directory_listing_ready", arg |-> w.result]

RunEmit(t) ==
    /\ Live(t) /\ thr[t].pc \in {"emit", "except_emit"}
    /\ LET p == Payload(thr[t])
       IN  /\ queue' = Emitted(t, p.sig, p.arg)
           /\ log' = [log EXCEPT ![t] = Append(@, p.sig)]
    /\ thr' = [thr EXCEPT ![t].pc = "finally"]
    /\ UNCHANGED << app, mainPc, tab, dialogs, nTasks, handled >>

\* the finally block with finished.emit() not guarded by _is_running
FinallyStepAlwaysFinished(w) == [w EXCEPT !.pc = "fin_emit"]

\* the finally block with finished.emit() lost
FinallyStepNeverFinished(w) == [w EXCEPT !.pc = "returned"]

\* the finally block without disk_handler.close()
FinallyStepNoClose(w) ==
    IF w.is_running THEN [w EXCEPT !.pc = "fin_emit"]
    ELSE [w EXCEPT !.pc = "returned", !.escaped = w.escaping]

\* lines 140-144 up to the emission: close the handler, read _is_running
FinallyStep(w) ==
    LET closed == IF w.handler = None THEN w
                  ELSE [w EXCEPT !.handler = Some(CloseHandler(Val(w.handler)))]
    IN  IF closed.is_running THEN [closed EXCEPT !.pc = "fin_emit"]
        ELSE [closed EXCEPT !.pc = "returned", !.escaped = closed.escaping]

RunFinally(t) ==
    /\ Live(t) /\ thr[t].pc = "finally"
    /\ thr' = [thr EXCEPT ![t] = FinallyStep(@)]
    /\ UNCHANGED << app, mainPc, tab, dialogs, queue, nTasks, log, handled >>

\* line 144: finished.emit().  thread.quit is queued for the GUI thread,
\* worker.deleteLater runs at once and posts the deletion to the worker's
\* own thread.
RunFinished(t) ==
    /\ Live(t) /\ thr[t].pc = "fin_emit"
    /\ queue' = Emitted(t, "finished", << >>)
    /\ log' = [log EXCEPT ![t] = Append(@, "finished")]
    /\ thr' = [thr EXCEPT ![t].pc = "returned", ![t].delPending = TRUE,
                          ![t].escaped = thr[t].escaping]
    /\ UNCHANGED << app, mainPc, tab, dialogs, nTasks, handled >>

\* the worker thread's event loop, entered when run has returned, deletes
\* the worker that deleteLater scheduled
ThreadLoop(t) ==
    /\ Live(t) /\ thr[t].pc = "returned"
    /\ thr[t].delPending /\ ~thr[t].deleted
    /\ thr' = [thr EXCEPT ![t].deleted = TRUE]
    /\ UNCHANGED << app, mainPc, tab, dialogs, queue, nTasks, log, handled >>

\* the event loop leaves once quit was requested: QThread.finished is
\* emitted (queued for the GUI thread) while isRunning is still true
ThreadExit(t) ==
    /\ Live(t) /\ thr[t].pc = "returned" /\ thr[t].quitReq
    /\ thr' = [thr EXCEPT ![t].tstate = "finishing", ![t].pc = "done",
                          ![t].deleted = @ \/ thr[t].delPending]
    /\ queue' = Append(queue, [sig |-> "thread_finished", t |-> t, arg |-> << >>])
    /\ UNCHANGED << app, mainPc, tab, dialogs, nTasks, log, handled >>

\* the thread has ended: isRunning turns false
ThreadDone(t) ==
    /\ app = "running" /\ thr[t].tstate = "finishing"
    /\ thr' = [thr EXCEPT ![t].tstate = "finished"]
    /\ UNCHANGED << app, mainPc, tab, dialogs, queue, nTasks, log, handled >>

WorkerNext ==
    \E t \in Tasks :
        \/ RunStart(t)
        \/ RunCall(t)
        \/ RunCheck(t)
        \/ RunEmit(t)
        \/ RunFinally(t)
        \/ RunFinished(t)
        \/ ThreadLoop(t)
        \/ ThreadExit(t)
        \/ ThreadDone(t)

GuiNext ==
    \/ Deliver
    \/ DismissDialog
    \/ CloseEvent
    \/ StopAnalysisEnd

Next ==
    \/ BrowseClick
    \/ \E path \in Images \cup {""} : BrowseChoose(path)
    \/ \E row \in 1 .. 2 : VolumeSelected(row)
    \/ GuiNext
    \/ WorkerNext

Spec == Init /\ [][Next]_vars

(***************************************************************************)
(* A worker on its own: the tab has just started one task, of any kind     *)
(* and with any parameters _start_disk_analysis accepts, on an image that  *)
(* is selected; nothing else is requested afterwards.                      *)
(***************************************************************************)
InitWorker ==
    /\ app = "running"
    /\ mainPc = "idle"
    /\ dialogs = << >>
    /\ queue = << >>
    /\ nTasks = 1
    /\ log = [t \in Tasks |-> << >>]
    /\ handled = [t \in Tasks |-> << >>]
    /\ \E task \in TaskKinds, img \in Images,
          pidx \in {None, Some(0), Some(1)}, off \in {None, Some(0)},
          ino \in {None, Some(42)} :
          /\ tab = [InitTab EXCEPT !.image_path = Some(img),
                                   !.browse_enabled = FALSE,
                                   !.disk_thread = Some(1),
                                   !.disk_worker = Some(1)]
          /\ thr = [t \in Tasks |->
                      IF t = 1
                      THEN NewWorker(task, img, pidx, off, Some("/"), ino)
                      ELSE NoWorker]

NextWorker == GuiNext \/ WorkerNext

SpecWorker == InitWorker /\ [][NextWorker]_vars

(***************************************************************************)
(* The tab with a volume selected and a listing on display: the fields as  *)
(* _display_volumes, _volume_selected, _on_filesystem_opened(True, ..) and *)
(* _display_directory_listing assign them for a volume of the image whose  *)
(* filesystem the collaborator opens, with no task in flight.  From there  *)
(* every request of the tab is possible, the double-click on a row of the  *)
(* file listing included.                                                  *)
(***************************************************************************)
ListingOf(img, vol, inode) ==
    ListDirectory(OpenFilesystem(NewHandler(img), None,
                                 Some(vol.start_sector)).h,
                  IF inode = None THEN Some("/") ELSE None, inode)

InitNav ==
    /\ app = "running"
    /\ mainPc = "idle"
    /\ dialogs = << >>
    /\ queue = << >>
    /\ nTasks = 0
    /\ thr = [t \in Tasks |-> NoWorker]
    /\ log = [t \in Tasks |-> << >>]
    /\ handled = [t \in Tasks |-> << >>]
    /\ \E img \in {"a", "b"}, row \in 1 .. 2, ino \in {None, Some(42)} :
          LET volumes == GetVolumeInfo(NewHandler(img)).ret
          IN  /\ row \in 1 .. Len(volumes)
              /\ ListingOf(img, volumes[row], ino) # << >>
              /\ tab = DisplayDirectoryListing(
                           OnFilesystemOpened(
                               VolumeContext(
                                   DisplayVolumes(
                                       [InitTab EXCEPT !.image_path = Some(img)],
                                       volumes),
                                   volumes[row]),
                               TRUE),
                           ListingOf(img, volumes[row], ino))

NextNav ==
    \/ Next
    \/ \E row \in 1 .. 4 : FileDoubleClicked(row)

SpecNav == InitNav /\ [][NextNav]_vars

(***************************************************************************)
(* A DiskImageHandler on its own: a caller holds one handler of an image   *)
(* that opens and calls its methods in any order with any arguments.  The  *)
(* handler is kept in thr[1].handler; the arguments and the outcome of the *)
(* last call are kept in the fields of thr[1] that run uses for them, and  *)
(* pc names the method called last.                                        *)
(***************************************************************************)
InitHandler ==
    /\ app = "running"
    /\ mainPc = "idle"
    /\ tab = InitTab
    /\ dialogs = << >>
    /\ queue = << >>
    /\ nTasks = 0
    /\ log = [t \in Tasks |-> << >>]
    /\ handled = [t \in Tasks |-> << >>]
    /\ \E img \in {i \in Images : ImgOpens(i)} :
          thr = [t \in Tasks |->
                   IF t = 1
                   THEN [NoWorker EXCEPT !.image_path = img,
                                         !.handler = Some(NewHandler(img))]
                   ELSE NoWorker]

HandlerGetVolumeInfo ==
    /\ LET r == GetVolumeInfo(Val(thr[1].handler))
       IN  thr' = [thr EXCEPT ![1].handler = Some(r.h), ![1].result = r.ret,
                              ![1].pc = "get_volume_info"]
    /\ UNCHANGED << app, mainPc, tab, dialogs, queue, nTasks, log, handled >>

\* log[1] keeps what the last two calls of open_filesystem returned
HandlerOpenFilesystem(pidx, off) ==
    /\ LET r == OpenFilesystem(Val(thr[1].handler), pidx, off)
           before == IF log[1] = << >> THEN << >>
                     ELSE << log[1][Len(log[1])] >>
       IN  /\ thr' = [thr EXCEPT ![1].handler = Some(r.h), ![1].success = r.ret,
                                  ![1].collab = r.calls,
                                  ![1].partition_index = pidx,
                                  ![1].offset_sectors = off,
                                  ![1].pc = "open_filesystem"]
           /\ log' = [log EXCEPT ![1] =
                         Append(before, IF r.ret THEN "True" ELSE "False")]
    /\ UNCHANGED << app, mainPc, tab, dialogs, queue, nTasks, handled >>

HandlerListDirectory(path, inode) ==
    /\ LET o == ListDirectoryOutcome(Val(thr[1].handler), path, inode)
       IN  thr' = [thr EXCEPT ![1].result =
                                ListDirectory(Val(thr[1].handler), path, inode),
                              ![1].raised = o.raised, ![1].collab = o.calls,
                              ![1].list_path = path, ![1].inode = inode,
                              ![1].pc = "list_directory"]
    /\ UNCHANGED << app, mainPc, tab, dialogs, queue, nTasks, log, handled >>

NextHandler ==
    \/ HandlerGetVolumeInfo
    \/ \E pidx \in {None, Some(0), Some(1), Some(2)},
          off \in {None, Some(0), Some(1), Some(3)} :
          HandlerOpenFilesystem(pidx, off)
    \/ \E path \in {None, Some("/"), Some("/x")},
          inode \in {None, Some(0), Some(RootInum), Some(42),
                     Some(OrphanInum)} :
          HandlerListDirectory(path, inode)

SpecHandler == InitHandler /\ [][NextHandler]_vars

(***************************************************************************)
(* gui/utility_tab.py: UtilityTab with a file selected, its two start      *)
(* buttons and the HashWorker and MetadataWorker of gui/worker.py.  Here   *)
(* tab holds the fields and widgets of UtilityTab, thr the workers and     *)
(* threads the two buttons create; queue, log, handled and nTasks are used *)
(* as for DiskTab.  The threads are QThreads with BaseWorker's finished    *)
(* signal connected as in DiskTab, so RunFinished, ThreadLoop, ThreadExit  *)
(* and ThreadDone apply to them as they stand.                             *)
(***************************************************************************)

\* UtilityTab after _browse_file has taken a file from the dialog (lines
\* 108-112 on top of __init__)
InitUtilityTab ==
    [selected_file |-> "f",
     hash_thread |-> None, hash_worker |-> None,
     metadata_thread |-> None, metadata_worker |-> None,
     hash_enabled |-> TRUE, metadata_enabled |-> TRUE,
     browse_enabled |-> TRUE]

InitUtility ==
    /\ app = "running"
    /\ mainPc = "idle"
    /\ tab = InitUtilityTab
    /\ dialogs = << >>
    /\ queue = << >>
    /\ thr = [t \in Tasks |-> NoWorker]
    /\ nTasks = 0
    /\ log = [t \in Tasks |-> << >>]
    /\ handled = [t \in Tasks |-> << >>]

\* HashWorker(file) or MetadataWorker(file), moved to a new QThread that is
\* started, with the connections of lines 146-162 and 198-214
NewUtilityWorker(task, file) ==
    [NoWorker EXCEPT !.task = task, !.image_path = file,
                     !.conn = {"finished", "results_ready", "error", "progress"},
                     !.is_running = TRUE, !.pc = "start", !.tstate = "running"]

\* UtilityTab._start_hash_calculation, run by a click on the hash button
StartHashCalculation ==
    /\ app = "running" /\ mainPc = "idle" /\ dialogs = << >>
    /\ tab.hash_enabled
    /\ IF tab.selected_file = ""
       THEN /\ dialogs' = Append(dialogs, "No File")
            /\ UNCHANGED << tab, thr, nTasks >>
       ELSE IF tab.hash_thread # None /\ IsRunning(Val(tab.hash_thread))
       THEN /\ dialogs' = Append(dialogs, "Busy")
            /\ UNCHANGED << tab, thr, nTasks >>
       ELSE /\ nTasks < MaxTasks
            /\ tab' = [tab EXCEPT !.hash_enabled = FALSE,
                                  !.browse_enabled = FALSE,
                                  !.hash_thread = Some(nTasks + 1),
                                  !.hash_worker = Some(nTasks + 1)]
            /\ thr' = [thr EXCEPT ![nTasks + 1] =
                          NewUtilityWorker("hash", tab.selected_file)]
            /\ nTasks' = nTasks + 1
            /\ UNCHANGED dialogs
    /\ UNCHANGED << app, mainPc, queue, log, handled >>

\* UtilityTab._start_metadata_extraction, run by a click on the metadata
\* button
StartMetadataExtraction ==
    /\ app = "running" /\ mainPc = "idle" /\ dialogs = << >>
    /\ tab.metadata_enabled
    /\ IF tab.selected_file = ""
       THEN /\ dialogs' = Append(dialogs, "No File")
            /\ UNCHANGED << tab, thr, nTasks >>
       ELSE IF tab.metadata_thread # None /\ IsRunning(Val(tab.metadata_thread))
       THEN /\ dialogs' = Append(dialogs, "Busy")
            /\ UNCHANGED << tab, thr, nTasks >>
       ELSE /\ nTasks < MaxTasks
            /\ tab' = [tab EXCEPT !.metadata_enabled = FALSE,
                                  !.browse_enabled = FALSE,
                                  !.metadata_thread = Some(nTasks + 1),
                                  !.metadata_worker = Some(nTasks + 1)]
            /\ thr' = [thr EXCEPT ![nTasks + 1] =
                          NewUtilityWorker("metadata", tab.selected_file)]
            /\ nTasks' = nTasks + 1
            /\ UNCHANGED dialogs
    /\ UNCHANGED << app, mainPc, queue, log, handled >>

\* UtilityTab._on_hash_finished
OnHashFinished(tb) ==
    [tb EXCEPT !.hash_enabled = TRUE, !.browse_enabled = TRUE,
               !.hash_thread = None, !.hash_worker = None]

\* UtilityTab._on_metadata_finished
OnMetadataFinished(tb) ==
    [tb EXCEPT !.metadata_enabled = TRUE, !.browse_enabled = TRUE,
               !.metadata_thread = None, !.metadata_worker = None]

\* what HashWorker.run and MetadataWorker.run emit before finished, by the
\* outcome of the collaborator call: hashes or metadata returned, a hash
\* of None returned, or an exception raised
UtilityPayload(task, outcome) ==
    IF outcome = "raised" \/ (task = "hash" /\ outcome = "none")
    THEN "error" ELSE "results_ready"

\* HashWorker.run and MetadataWorker.run up to the finally block; nothing
\* stops the worker here, so _is_running is true at every test
UtilityRun(t, outcome) ==
    /\ Live(t) /\ thr[t].pc = "start"
    /\ thr[t].task \in {"hash", "metadata"}
    /\ LET sig == UtilityPayload(thr[t].task, outcome)
       IN  /\ queue' = Emitted(t, sig, outcome)
           /\ log' = [log EXCEPT ![t] = @ \o << "progress", sig >>]
    /\ thr' = [thr EXCEPT ![t].pc = "fin_emit"]
    /\ UNCHANGED << app, mainPc, tab, dialogs, nTasks, handled >>

\* the slot of UtilityTab connected to each signal of a worker
UtilitySlotOf(task, sig) ==
    CASE sig = "results_ready" ->
             IF task = "hash" THEN "_display_hashes" ELSE "_display_metadata"
      [] sig = "error"            -> "_show_error"
      [] sig = "finished"         -> "quit"
      [] sig = "thread_finished"  ->
             IF task = "hash" THEN "_on_hash_finished" ELSE "_on_metadata_finished"
      [] OTHER                    -> "lambda"

\* The GUI thread's event loop takes the first queued signal and runs the
\* slot of UtilityTab connected to it.  _display_hashes, _display_metadata
\* and _show_error write result widgets and the status bar only; the
\* cleanup slot drops the reference to a thread that is finishing or has
\* finished.
UtilityDeliver ==
    /\ app = "running" /\ queue # << >>
    /\ mainPc = "idle"
    /\ LET e == Head(queue)
           task == thr[e.t].task
       IN  /\ queue' = Tail(queue)
           /\ handled' = [handled EXCEPT ![e.t] =
                             Append(@, UtilitySlotOf(task, e.sig))]
           /\ CASE e.sig = "finished" ->
                     /\ thr' = [thr EXCEPT ![e.t].quitReq = TRUE]
                     /\ UNCHANGED tab
                [] e.sig = "thread_finished" ->
                     /\ tab' = IF task = "hash" THEN OnHashFinished(tab)
                               ELSE OnMetadataFinished(tab)
                     /\ thr' = [thr EXCEPT ![e.t].tstate = "finished"]
                [] OTHER ->
                     UNCHANGED << tab, thr >>
    /\ UNCHANGED << app, mainPc, dialogs, nTasks, log >>

NextUtility ==
    \/ StartHashCalculation
    \/ StartMetadataExtraction
    \/ UtilityDeliver
    \/ \E t \in Tasks :
          \/ \E outcome \in {"returned", "none", "raised"} : UtilityRun(t, outcome)
          \/ RunFinished(t)
          \/ ThreadLoop(t)
          \/ ThreadExit(t)
          \/ ThreadDone(t)

SpecUtility == InitUtility /\ [][NextUtility]_vars

(***************************************************************************)
(* tools/network_analysis.py: analyze_pcap reading a capture file packet   *)
(* by packet.  Here queue holds the packets PcapReader has not yet         *)
(* yielded and tab the function's locals: the file as it was opened (None  *)
(* when the path names no file), processed_count, the conversations        *)
(* dictionary in insertion order, and, once the function has returned, the *)
(* conversation list and the error of the summary.  The timestamps of the  *)
(* summary are computed per packet and decide nothing here.                *)
(***************************************************************************)

\* the longest capture file: the number of its packets
MaxPackets == 3

\* the port 'N/A' of a packet with neither a TCP nor a UDP layer; it is only
\* ever compared with itself
NA == -1

\* two addresses as strings: "1.2" and "1.10" (the second is the smaller
\* string)
AddrA == << 49, 46, 50 >>
AddrB == << 49, 46, 49, 48 >>

PcapPacket(l4, src, sport, dst, dport) ==
    [ip |-> TRUE, l4 |-> l4, src |-> src, sport |-> sport,
     dst |-> dst, dport |-> dport]

\* the packets a file is made of: one without an IP layer, IP packets
\* without TCP or UDP, TCP packets between three endpoints and UDP packets
\* between two
PcapPackets ==
    {[ip |-> FALSE, l4 |-> "none", src |-> << >>, sport |-> 0,
      dst |-> << >>, dport |-> 0]}
    \cup {PcapPacket("none", e[1], 0, e[2], 0) :
             e \in {<< AddrA, AddrB >>, << AddrB, AddrA >>, << AddrA, AddrA >>}}
    \cup {PcapPacket("TCP", e[1], e[2], f[1], f[2]) :
             e, f \in {<< AddrA, 80 >>, << AddrB, 80 >>, << AddrB, 443 >>}}
    \cup {PcapPacket("UDP", e[1], 53, e[2], 53) :
             e \in {<< AddrA, AddrB >>, << AddrB, AddrA >>}}

\* (ip1, port1) > (ip2, port2) on Python tuples
PairGreater(ip1, port1, ip2, port2) ==
    IF ip1 # ip2 THEN StrLess(ip2, ip1) ELSE port1 > port2

\* the conversation key with the source always first
ConvKeyDirected(pkt) ==
    LET proto == IF pkt.l4 \in {"TCP", "UDP"} THEN pkt.l4 ELSE "IP"
        sport == IF pkt.l4 \in {"TCP", "UDP"} THEN pkt.sport ELSE NA
        dport == IF pkt.l4 \in {"TCP", "UDP"} THEN pkt.dport ELSE NA
    IN  << proto, pkt.src, sport, pkt.dst, dport >>

\* lines 44-66: protocol name, ports, and the key with the smaller
\* (address, port) pair first
ConvKey(pkt) ==
    LET proto == IF pkt.l4 \in {"TCP", "UDP"} THEN pkt.l4 ELSE "IP"
        sport == IF pkt.l4 \in {"TCP", "UDP"} THEN pkt.sport ELSE NA
        dport == IF pkt.l4 \in {"TCP", "UDP"} THEN pkt.dport ELSE NA
    IN  IF PairGreater(pkt.src, sport, pkt.dst, dport)
        THEN << proto, pkt.dst, dport, pkt.src, sport >>
        ELSE << proto, pkt.src, sport, pkt.dst, dport >>

\* conversations[conv_key] = conversations.get(conv_key, 0) + 1 on a
\* dictionary kept as the sequence of its items in insertion order
CountKey(convs, key) ==
    IF \E i \in DOMAIN convs : convs[i].key = key
    THEN [i \in DOMAIN convs |->
            IF convs[i].key = key
            THEN [convs[i] EXCEPT !.count = @ + 1] ELSE convs[i]]
    ELSE Append(convs, [key |-> key, count |-> 1])

\* list.sort(key=packet_count, reverse=True) is stable: an item goes before
\* the first one with a smaller count
RECURSIVE InsertConv(_, _)
InsertConv(c, sorted) ==
    IF sorted = << >> THEN << c >>
    ELSE IF c.packet_count > Head(sorted).packet_count THEN << c >> \o sorted
    ELSE << Head(sorted) >> \o InsertConv(c, Tail(sorted))

RECURSIVE SortConvs(_)
SortConvs(cs) ==
    IF cs = << >> THEN << >>
    ELSE InsertConv(cs[Len(cs)], SortConvs(SubSeq(cs, 1, Len(cs) - 1)))

\* lines 85-97: the dictionary as a list of dictionaries, sorted
ConvList(convs) ==
    SortConvs([i \in DOMAIN convs |->
                 [protocol |-> convs[i].key[1],
                  src_ip |-> convs[i].key[2], src_port |-> convs[i].key[3],
                  dst_ip |-> convs[i].key[4], dst_port |-> convs[i].key[5],
                  packet_count |-> convs[i].count]])

PcapFiles ==
    UNION {[1 .. n -> PcapPackets] : n \in 0 .. MaxPackets}

InitPcap ==
    /\ app = "running"
    /\ mainPc = "idle"
    /\ dialogs = << >>
    /\ thr = [t \in Tasks |-> NoWorker]
    /\ nTasks = 0
    /\ log = [t \in Tasks |-> << >>]
    /\ handled = [t \in Tasks |-> << >>]
    /\ \E file \in {None} \cup {Some(f) : f \in PcapFiles} :
          /\ queue = IF file = None THEN << >> ELSE Val(file)
          /\ tab = [file |-> file, pc |-> "open", processed_count |-> 0,
                    conversations |-> << >>, conv_list |-> << >>,
                    packet_count |-> 0, error |-> None]

\* PcapReader(pcap_path): the path names no file, FileNotFoundError is
\* caught at line 102 and the result has no conversations
PcapOpen ==
    /\ tab.pc = "open"
    /\ tab' = IF tab.file = None
              THEN [tab EXCEPT !.pc = "returned",
                               !.error = Some("PCAP file not found")]
              ELSE [tab EXCEPT !.pc = "reading"]
    /\ UNCHANGED << app, mainPc, dialogs, queue, thr, nTasks, log, handled >>

\* one turn of the loop of lines 32-72
PcapPacketRead ==
    /\ tab.pc = "reading" /\ queue # << >>
    /\ LET pkt == Head(queue)
       IN  tab' = [tab EXCEPT !.processed_count = @ + 1,
                              !.conversations =
                                  IF pkt.ip THEN CountKey(@, ConvKey(pkt)) ELSE @]
    /\ queue' = Tail(queue)
    /\ UNCHANGED << app, mainPc, dialogs, thr, nTasks, log, handled >>

\* the reader is exhausted: lines 78-100
PcapReturn ==
    /\ tab.pc = "reading" /\ queue = << >>
    /\ tab' = [tab EXCEPT !.pc = "returned",
                          !.packet_count = tab.processed_count,
                          !.conv_list = ConvList(tab.conversations)]
    /\ UNCHANGED << app, mainPc, dialogs, queue, thr, nTasks, log, handled >>

NextPcap == PcapOpen \/ PcapPacketRead \/ PcapReturn

SpecPcap == InitPcap /\ [][NextPcap]_vars

(***************************************************************************)
(* Properties.                                                             *)
(***************************************************************************)
PayloadSignals ==
    {"volume_info_ready", "filesystem_opened", "directory_listing_ready"}

TerminalSignals == PayloadSignals \cup {"error"}

Count(seq, S) == Cardinality({i \in DOMAIN seq : seq[i] \in S})

Stopped(t) == Count(log[t], {"stop"}) > 0

\* run has passed the place where it emits its payload
PastPayload(t) == thr[t].pc \in {"finally", "fin_emit", "returned", "done"}

\* run has returned
Returned(t) == thr[t].pc \in {"returned", "done"}

NavContext ==
    << tab.selected_partition_index, tab.selected_offset, tab.current_fs_open >>

\* this step is _start_disk_analysis rejecting a request as busy
BusyRejection ==
    /\ Len(dialogs') = Len(dialogs) + 1
    /\ dialogs'[Len(dialogs')] = "Busy"

\* C1: at most one worker thread is running at any time; a request made
\* while the current thread runs creates no thread and no worker.
C1_AtMostOneInFlight ==
    \A t1, t2 \in Tasks : IsRunning(t1) /\ IsRunning(t2) => t1 = t2

\* a request was rejected while the one worker is in the middle of run
C1_Witness ==
    /\ Count(dialogs, {"Busy"}) > 0
    /\ \E t \in Tasks : IsRunning(t) /\ thr[t].pc \in {"start", "call", "check"}

\* C2 (as claimed): the navigation context does not change while a disk
\* task is in flight, in particular not by a double-click rejected as busy.
C2_NavFrozenInFlight ==
    [][(\E t \in Tasks : IsRunning(t)) => NavContext' = NavContext]_vars

BeforeFinalTest ==
    {"start", "call", "list", "check", "emit", "except", "except_emit", "finally"}

C4_NoPayloadAfterStop ==
    \A t \in Tasks :
        \A i, j \in DOMAIN log[t] :
            i < j /\ log[t][i] = "stop" => log[t][j] \notin TerminalSignals

\* this step hands the listing of a list_dir task whose open succeeded to
\* _display_directory_listing
ListingDelivered ==
    /\ queue # << >>
    /\ Head(queue).sig = "directory_listing_ready"
    /\ thr[Head(queue).t].task = "list_dir"
    /\ thr[Head(queue).t].success
    /\ queue' = Tail(queue)

\* C5 (as claimed): when a list_dir task opened the filesystem, the tab's
\* filesystem-open flag is true and the entries are shown once the listing
\* has been handled.
C5_ListingShown ==
    [][ListingDelivered =>
         /\ tab'.current_fs_open
         /\ tab'.file_listing = Head(queue).arg]_vars

\* the collaborator can open the filesystem of the partition with this address
PartitionOpens(img, idx) ==
    /\ GetPartByAddr(img, idx) # None
    /\ FsOpens(img, Val(GetPartByAddr(img, idx)).start * SectorSize)

\* C6 (as claimed): the open step of a list_dir task succeeds in the task's
\* own fresh handler for every partition the collaborator can open.
C6_FreshOpenSucceeds ==
    \A t \in Tasks :
        /\ thr[t].task = "list_dir"
        /\ thr[t].partition_index # None /\ thr[t].offset_sectors = None
        /\ thr[t].pc \in {"list", "check", "emit", "finally", "fin_emit", "returned"}
        /\ PartitionOpens(thr[t].image_path, Val(thr[t].partition_index))
        => thr[t].success

\* C7: a run that is not stopped emits exactly one terminal payload signal,
\* whatever the task kind and the collaborator's outcome.
C7_OneTerminalPayload ==
    \A t \in Tasks :
        ~Stopped(t) =>
            /\ Count(log[t], TerminalSignals) <= 1
            /\ PastPayload(t) => Count(log[t], TerminalSignals) = 1

\* an unknown task kind has returned from run with its one payload
C7_Witness ==
    \E t \in Tasks :
        /\ thr[t].task = "bogus" /\ Returned(t) /\ ~Stopped(t)
        /\ Count(log[t], TerminalSignals) = 1

\* the position of the first s in seq (0 when there is none)
First(seq, S) ==
    IF \E i \in DOMAIN seq : seq[i] \in S
    THEN CHOOSE i \in DOMAIN seq : seq[i] \in S /\ \A j \in 1 .. i - 1 : seq[j] \notin S
    ELSE 0

PayloadSlots ==
    {"_display_volumes", "_on_filesystem_opened", "_display_directory_listing",
     "_show_error"}

\* C8: for a task that is not stopped, finished is emitted exactly once,
\* after the terminal payload and as the worker's last signal, and the tab
\* runs the payload slot before _on_disk_analysis_finished.
C8_FinishedLast ==
    \A t \in Tasks :
        ~Stopped(t) =>
            /\ Count(log[t], {"finished"}) <= 1
            /\ Returned(t) => Count(log[t], {"finished"}) = 1
            /\ Count(log[t], {"finished"}) = 1 =>
                   /\ log[t][Len(log[t])] = "finished"
                   /\ First(log[t], TerminalSignals) \in 1 .. Len(log[t]) - 1
            /\ Count(handled[t], {"_on_disk_analysis_finished"}) > 0 =>
                   /\ First(handled[t], PayloadSlots) > 0
                   /\ First(handled[t], PayloadSlots)
                        < First(handled[t], {"_on_disk_analysis_finished"})

\* the tab has run the payload slot and then the cleanup of a task
C8_Witness ==
    \E t \in Tasks :
        /\ ~Stopped(t)
        /\ Count(handled[t], PayloadSlots) = 1
        /\ Count(handled[t], {"_on_disk_analysis_finished"}) = 1

C10_RejectionFrame ==
    [][BusyRejection =>
         /\ thr' = thr
         /\ nTasks' = nTasks
         /\ queue' = queue
         /\ log' = log]_vars

\* a rejection's warning is open and the task in flight has emitted its
\* one outcome
C10_Witness ==
    /\ Count(dialogs, {"Busy"}) > 0
    /\ nTasks < MaxTasks
    /\ nTasks > 0
    /\ Count(log[nTasks], TerminalSignals) = 1
    /\ ~Stopped(nTasks)

IdleOnWholeImage ==
    /\ app = "running" /\ mainPc = "idle" /\ dialogs = << >>
    /\ ~IsBusy(tab) /\ tab.image_path # None
    /\ Len(tab.volume_table) = 1
    /\ tab.volume_table[1].desc = SyntheticDesc

\* C12: double-clicking the whole-image volume while idle sets the context
\* to offset 0 without a partition index and starts one list_dir task with
\* offset_sectors = 0, no partition_index and list_path "/".
C12_WholeImageSelection ==
    [][IdleOnWholeImage /\ VolumeSelected(1) =>
         /\ tab'.selected_partition_index = None
         /\ tab'.selected_offset = Some(0)
         /\ nTasks' = nTasks + 1
         /\ tab'.disk_thread = Some(nTasks')
         /\ thr'[nTasks'].task = "list_dir"
         /\ thr'[nTasks'].offset_sectors = Some(0)
         /\ thr'[nTasks'].partition_index = None
         /\ thr'[nTasks'].list_path = Some("/")
         /\ thr'[nTasks'].inode = None
         /\ \A t \in Tasks \ {nTasks'} : thr'[t] = thr[t]]_vars

\* the task started for the whole-image volume is the one in flight
C12_Witness ==
    /\ Len(tab.volume_table) = 1
    /\ tab.volume_table[1].desc = SyntheticDesc
    /\ tab.disk_thread # None
    /\ thr[Val(tab.disk_thread)].task = "list_dir"
    /\ thr[Val(tab.disk_thread)].offset_sectors = Some(0)
    /\ tab.selected_offset = Some(0)

\* this step is _start_disk_analysis creating the worker of a list_dir task
ListDirDispatched ==
    /\ nTasks' = nTasks + 1
    /\ thr'[nTasks'].task = "list_dir"

\* C13: every list_dir request the tab dispatches, from a volume selection
\* or from a double-click on a directory, carries exactly one of
\* partition_index and offset_sectors, and the image path selected in the
\* tab.
C13_ExactlyOneArgument ==
    [][ListDirDispatched =>
         /\ (thr'[nTasks'].partition_index = None)
               # (thr'[nTasks'].offset_sectors = None)
         /\ tab'.image_path = Some(thr'[nTasks'].image_path)
         /\ tab.image_path = tab'.image_path]_vars

\* a double-click on a directory was dispatched while the context held both
\* the slot and the start sector of a partition
C13_Witness ==
    \E t \in Tasks :
        /\ thr[t].task = "list_dir" /\ thr[t].inode # None
        /\ thr[t].partition_index # None
        /\ tab.selected_partition_index # None /\ tab.selected_offset # None

\* the open step of this list_dir task has failed and the task was not
\* stopped
OpenStepFailed(t) ==
    /\ thr[t].task = "list_dir" /\ thr[t].handler # None
    /\ thr[t].pc \notin {"start", "call"}
    /\ ~thr[t].success
    /\ ~Stopped(t)

\* this step hands the error of a list_dir task whose open step failed to
\* _show_error
OpenFailureDelivered ==
    /\ queue # << >>
    /\ Head(queue).sig = "error"
    /\ OpenStepFailed(Head(queue).t)
    /\ queue' = Tail(queue)

\* C14: when the open step of a list_dir task fails, the worker does not
\* call list_directory and emits no directory listing but one error; when
\* the tab handles it, a modal error box opens, the filesystem-open flag is
\* false and the volume table is as it was, with its rows.
C14_OpenFailure ==
    [][
        /\ \A t \in Tasks :
              OpenStepFailed(t)' =>
                  /\ thr'[t].pc # "list" /\ thr'[t].result = << >>
                  /\ Count(log'[t], {"directory_listing_ready"}) = 0
                  /\ (PastPayload(t)' => Count(log'[t], {"error"}) = 1)
        /\ OpenFailureDelivered =>
              /\ dialogs' = Append(dialogs, "Disk Analysis Error")
              /\ ~tab'.current_fs_open
              /\ tab'.volume_table = tab.volume_table
              /\ tab'.volume_table # << >>
    ]_vars

\* the error box of a failed open was dismissed, the task is over and a
\* volume was selected again: another list_dir task is in flight
C14_Witness ==
    \E t \in Tasks :
        /\ OpenStepFailed(t)
        /\ Count(handled[t], {"_show_error"}) = 1
        /\ Count(handled[t], {"_on_disk_analysis_finished"}) = 1
        /\ dialogs = << >>
        /\ t < nTasks /\ thr[nTasks].task = "list_dir" /\ IsRunning(nTasks)

\* the worker created in this step is the only change to the workers
OneWorkerCreated ==
    /\ nTasks' = nTasks + 1
    /\ tab'.disk_thread = Some(nTasks')
    /\ \A t \in Tasks \ {nTasks'} : thr'[t] = thr[t]

\* C15: a double-click on a Directory entry of the displayed listing leaves
\* the partition index and the offset of the navigation context as they
\* are and, when no task is in flight and an image is selected, starts one
\* list_dir task with inode = the entry's inode, list_path = None and the
\* partition index of the context, or its offset when it has no partition
\* index; a double-click made while a task is in flight starts none.
C15_DirectoryNavigation ==
    [][\A row \in DOMAIN tab.file_listing :
          /\ tab.current_fs_open
          /\ tab.file_listing[row].type = DIR
          /\ FileDoubleClicked(row)
          => /\ tab'.selected_partition_index = tab.selected_partition_index
             /\ tab'.selected_offset = tab.selected_offset
             /\ tab'.current_fs_open = tab.current_fs_open
             /\ IF IsBusy(tab) \/ tab.image_path = None
                THEN nTasks' = nTasks /\ thr' = thr
                ELSE /\ OneWorkerCreated
                     /\ thr'[nTasks'].task = "list_dir"
                     /\ thr'[nTasks'].inode = Some(tab.file_listing[row].inode)
                     /\ thr'[nTasks'].list_path = None
                     /\ IF tab.selected_partition_index # None
                        THEN /\ thr'[nTasks'].partition_index
                                  = tab.selected_partition_index
                             /\ thr'[nTasks'].offset_sectors = None
                        ELSE /\ thr'[nTasks'].partition_index = None
                             /\ thr'[nTasks'].offset_sectors = tab.selected_offset
                             /\ tab.selected_offset # None]_vars

\* the directory with inode 42 was double-clicked in the listing of the
\* second partition: its task runs with the partition index of the context
C15_Witness ==
    /\ tab.selected_partition_index = Some(1)
    /\ tab.current_fs_open
    /\ tab.disk_thread # None
    /\ thr[Val(tab.disk_thread)].task = "list_dir"
    /\ thr[Val(tab.disk_thread)].inode = Some(42)
    /\ thr[Val(tab.disk_thread)].list_path = None
    /\ thr[Val(tab.disk_thread)].partition_index = Some(1)

\* C16: choosing a new image in the file dialog clears the volume table and
\* the file listing, sets _selected_partition_index and _selected_offset to
\* None and _current_fs_open to False, and leaves exactly one task in
\* flight: a get_volumes task for the new path.
C16_NewImageResets ==
    [][\A path \in Images :
          BrowseChoose(path) =>
             /\ tab'.image_path = Some(path)
             /\ tab'.volume_table = << >>
             /\ tab'.file_listing = << >>
             /\ tab'.selected_partition_index = None
             /\ tab'.selected_offset = None
             /\ ~tab'.current_fs_open
             /\ OneWorkerCreated
             /\ thr'[nTasks'].task = "get_volumes"
             /\ thr'[nTasks'].image_path = path
             /\ \A t \in Tasks :
                   thr'[t].tstate \in {"running", "finishing"} <=> t = nTasks'
             /\ dialogs' = dialogs]_vars

\* a new image was chosen while a listing was on display: its get_volumes
\* task is starting and the tab is reset
C16_Witness ==
    /\ nTasks = 1
    /\ thr[1].task = "get_volumes" /\ thr[1].pc = "start"
    /\ tab.image_path = Some(thr[1].image_path)
    /\ tab.file_listing = << >> /\ tab.selected_offset = None

\* the get_volumes task of an image that cannot be opened, or whose volume
\* system cannot be read for a reason other than a missing partition table
EnumerationFailed(t) ==
    /\ thr[t].task = "get_volumes"
    /\ \/ ~ImgOpens(thr[t].image_path)
       \/ VolumeSystem(thr[t].image_path) = "fault"

\* the task is over: its payload and its end were handled by the tab
TaskOver(t) ==
    /\ ~Stopped(t)
    /\ Count(handled[t], PayloadSlots) = 1
    /\ Count(handled[t], {"_on_disk_analysis_finished"}) = 1

FailedEnumerationHandled ==
    /\ queue # << >>
    /\ EnumerationFailed(Head(queue).t)
    /\ ~Stopped(Head(queue).t)
    /\ queue' = Tail(queue)

C19_OpenFsPayload ==
    \A t \in Tasks :
        /\ thr[t].task = "open_fs" /\ thr[t].handler # None
        /\ PastPayload(t) /\ ~Stopped(t)
        => /\ Count(log[t], {"filesystem_opened"}) = 1
           /\ Count(log[t], {"error"}) = 0

\* C20: open_filesystem called with both partition_index and
\* offset_sectors, or with neither, returns False, makes no collaborator
\* call (no get_part_by_addr, no FS_Info) and leaves no filesystem open.
C20_ArgumentCheck ==
    \A t \in Tasks :
        /\ thr[t].pc = "open_filesystem"
        /\ (thr[t].partition_index = None) = (thr[t].offset_sectors = None)
        => /\ ~thr[t].success
           /\ thr[t].collab = << >>
           /\ Val(thr[t].handler).fs_info = None

\* open_filesystem was called with the address of a partition whose
\* filesystem opens and with an offset, on a handler that holds the
\* partition table
C20_Witness ==
    \E t \in Tasks :
        /\ thr[t].pc = "open_filesystem"
        /\ thr[t].partition_index = Some(1) /\ thr[t].offset_sectors = Some(3)
        /\ Val(thr[t].handler).volume_info # None
        /\ ~thr[t].success

\* the byte offset at which this task's open_filesystem opened the filesystem
OpenedAt(w) ==
    IF w.offset_sectors # None THEN Val(w.offset_sectors) * SectorSize
    ELSE Val(GetPartByAddr(w.image_path, Val(w.partition_index))).start * SectorSize

\* this step hands the empty result of a directory read that failed after
\* a successful open to _display_directory_listing
ReadFailureDelivered ==
    /\ queue # << >>
    /\ Head(queue).sig = "directory_listing_ready"
    /\ LET w == thr[Head(queue).t]
       IN  /\ w.task = "list_dir" /\ w.success
           /\ RawDirectory(w.image_path, OpenedAt(w), w.list_path, w.inode) = None
    /\ queue' = Tail(queue)

\* C21 (as claimed): when the directory read fails after a successful open,
\* the tab shows the failure in its status line, opens no message box and
\* leaves the filesystem-open flag as it is.
C21_ReadFailureInStatus ==
    [][ReadFailureDelivered =>
         /\ tab'.fs_status = "Directory is empty or unreadable."
         /\ dialogs' = dialogs
         /\ tab'.current_fs_open = tab.current_fs_open]_vars

\* this step is stop_analysis, called while the tab's thread is running, up
\* to where it returns, waits or raises
StopRequested ==
    /\ IsBusy(tab)
    /\ CloseEvent \/ BrowseClick

\* C22 (as claimed): stop_analysis on a running task asks the worker to
\* stop and the thread to quit and then waits; when it returns, no worker
\* thread is running, the thread and worker references are cleared and the
\* browse control is enabled.
C22_StopAlwaysCleans ==
    [][
        /\ StopRequested =>
              /\ mainPc' \in {"wait_close", "wait_browse"}
              /\ ~thr'[Val(tab.disk_thread)].is_running
              /\ thr'[Val(tab.disk_thread)].quitReq
        /\ StopAnalysisEnd =>
              /\ \A t \in Tasks : thr'[t].tstate \notin {"running", "finishing"}
              /\ tab'.disk_thread = None /\ tab'.disk_worker = None
              /\ tab'.browse_enabled
    ]_vars

\* what the collaborator iterates for the last list_directory call of the
\* handler kept in thr[t]: the directory by inode when one was passed, by
\* path otherwise; None when no filesystem is open or open_dir raises
ListedDirectory(t) ==
    LET h == Val(thr[t].handler)
    IN  IF h.fs_info = None THEN None
        ELSE IF thr[t].inode # None
        THEN RawDirectory(Val(h.fs_info).img, Val(h.fs_info).offset, None,
                          thr[t].inode)
        ELSE RawDirectory(Val(h.fs_info).img, Val(h.fs_info).offset,
                          thr[t].list_path, None)

\* C23: no entry of a listing returned by list_directory is named "." or
\* ".." unless the listed directory is the root of the filesystem, and no
\* entry has a name that begins with "$", the root included.
C23_FilteredNames ==
    \A t \in Tasks :
        thr[t].pc = "list_directory" =>
            \A i \in DOMAIN thr[t].result :
                LET name == thr[t].result[i].name
                IN  /\ name \in {<< 46 >>, << 46, 46 >>} =>
                          Val(ListedDirectory(t)).addr = RootInum
                    /\ name = << >> \/ name[1] # 36

\* a directory that is not the root and holds ".", ".." and a "$" name was
\* listed
C23_Witness ==
    \E t \in Tasks :
        /\ thr[t].pc = "list_directory" /\ thr[t].result # << >>
        /\ Val(ListedDirectory(t)).addr # RootInum
        /\ \E i \in DOMAIN Val(ListedDirectory(t)).entries :
              Val(ListedDirectory(t)).entries[i].name[1] = 36

\* the entries of the listed directory that pass the filter, in the
\* collaborator's order
Filtered(t) ==
    IF ListedDirectory(t) = None THEN << >>
    ELSE IF IterationFails(Val(ListedDirectory(t)).entries,
                           Val(ListedDirectory(t)).addr) THEN << >>
    ELSE CollectEntries(Val(ListedDirectory(t)).entries,
                        Val(ListedDirectory(t)).addr)

\* s occurs in t as often as in u, for every element
SamePermutation(s, u) ==
    /\ Len(s) = Len(u)
    /\ \A i \in DOMAIN s :
          Cardinality({j \in DOMAIN s : s[j] = s[i]})
              = Cardinality({j \in DOMAIN u : u[j] = s[i]})

\* C24: a result of list_directory holds exactly the entries that passed
\* the filter, the directories before all other entries, and within each
\* of the two groups the names in non-decreasing order of their lower-case
\* forms.
C24_SortedListing ==
    \A t \in Tasks :
        thr[t].pc = "list_directory" =>
            LET r == thr[t].result
            IN  /\ SamePermutation(r, Filtered(t))
                /\ \A i, j \in DOMAIN r :
                      i < j =>
                        /\ r[j].type = DIR => r[i].type = DIR
                        /\ (r[i].type = DIR) = (r[j].type = DIR) =>
                              ~StrLess(LowerName(r[j].name), LowerName(r[i].name))

\* a directory with an upper-case and a lower-case name among its files
\* was listed
C24_Witness ==
    \E t \in Tasks :
        /\ thr[t].pc = "list_directory" /\ Len(thr[t].result) >= 4
        /\ \E i, j \in DOMAIN thr[t].result :
              /\ thr[t].result[i].type # DIR /\ thr[t].result[j].type # DIR
              /\ thr[t].result[i].name[1] \in 65 .. 90
              /\ thr[t].result[j].name[1] \in 97 .. 122

\* C25: list_directory given an inode lists the directory with that inode,
\* whatever the path argument and also for inode 0; it lists the directory
\* at the path only when the inode is None.
C25_InodeBeforePath ==
    \A t \in Tasks :
        thr[t].pc = "list_directory" /\ Val(thr[t].handler).fs_info # None =>
            LET fs == Val(Val(thr[t].handler).fs_info)
                d  == IF thr[t].inode # None
                      THEN RawDirectory(fs.img, fs.offset, None, thr[t].inode)
                      ELSE RawDirectory(fs.img, fs.offset, thr[t].list_path, None)
            IN  IF d = None THEN thr[t].result = << >>
                ELSE /\ SamePermutation(thr[t].result, Filtered(t))
                     /\ thr[t].inode # None => Val(d).addr = Val(thr[t].inode)

\* list_directory was called with inode 0 and the path of the root on an
\* open filesystem: no directory has inode 0, the result is empty
C25_Witness ==
    \E t \in Tasks :
        /\ thr[t].pc = "list_directory" /\ Val(thr[t].handler).fs_info # None
        /\ thr[t].inode = Some(0) /\ thr[t].list_path = Some("/")
        /\ thr[t].result = << >>

\* C26: a double-click on an entry that is not a directory starts no task
\* and changes nothing of the tab: navigation context, filesystem-open
\* flag, listing and every other field stay as they are, and nothing is
\* queued.
C26_FileClickFrame ==
    [][\A row \in DOMAIN tab.file_listing :
          tab.file_listing[row].type # DIR /\ FileDoubleClicked(row) =>
              /\ nTasks' = nTasks
              /\ thr' = thr
              /\ tab' = tab
              /\ queue' = queue]_vars

\* a file of the displayed listing was double-clicked while the tab was
\* idle: its information box is open and no task was started
C26_Witness ==
    /\ Count(dialogs, {"File Clicked"}) = 1
    /\ tab.current_fs_open /\ tab.file_listing # << >>
    /\ nTasks = 0

\* C27: for an image with a partition table, get_volume_info returns one
\* descriptor per partition the collaborator reports, in the collaborator's
\* order, with slot = the partition's address and its start and length
\* unchanged; distinct addresses give distinct slots.
C27_OneDescriptorPerPartition ==
    \A t \in Tasks :
        /\ thr[t].pc = "get_volume_info"
        /\ VolumeSystem(thr[t].image_path) = "table"
        => LET parts == Partitions(thr[t].image_path)
               r     == thr[t].result
           IN  /\ Len(r) = Len(parts)
               /\ \A i \in DOMAIN r :
                     /\ r[i].slot = parts[i].addr
                     /\ r[i].start_sector = parts[i].start
                     /\ r[i].num_sectors = parts[i].len
               /\ (\A i, j \in DOMAIN parts :
                       i # j => parts[i].addr # parts[j].addr)
                   => \A i, j \in DOMAIN r : i # j => r[i].slot # r[j].slot

\* the two partitions of the table were enumerated
C27_Witness ==
    \E t \in Tasks :
        /\ thr[t].pc = "get_volume_info"
        /\ VolumeSystem(thr[t].image_path) = "table"
        /\ Len(thr[t].result) = 2

\* this step runs _on_disk_analysis_finished for the thread-finished
\* notification of task t
CleanupDelivered(t) ==
    /\ queue # << >>
    /\ Head(queue).sig = "thread_finished" /\ Head(queue).t = t
    /\ queue' = Tail(queue)

\* C28 (as claimed): _on_disk_analysis_finished runs at most once per task,
\* and the thread-finished notification of a task is never handled while
\* the tab holds the thread of a task started later.
C28_NoStaleCleanup ==
    [][\A t \in Tasks :
          /\ Count(handled'[t], {"_on_disk_analysis_finished"}) <= 1
          /\ CleanupDelivered(t) =>
                tab.disk_thread = None \/ tab.disk_thread = Some(t)]_vars

\* the task was dispatched, was not stopped, and the tab has not yet run
\* its cleanup
AwaitsCleanup(t) ==
    /\ thr[t].task # "none"
    /\ ~Stopped(t)
    /\ Count(handled[t], {"_on_disk_analysis_finished"}) = 0

\* C29 (as claimed), in its finite form: a task that was dispatched and not
\* stopped can always still reach its cleanup; the program never ends
\* abnormally while such a task waits for it.
C29_CleanupReachable ==
    \A t \in Tasks : AwaitsCleanup(t) => app # "crashed"

\* the handler holds no image, volume-system or filesystem object
Released(h) == ~h.img_info /\ h.volume_info = None /\ h.fs_info = None

\* C30: when run has returned, the DiskImageHandler it constructed, if any,
\* has been closed: on success, after a failed open, after an exception and
\* after an early return that follows a stop request.
C30_HandlerClosedOnReturn ==
    \A t \in Tasks :
        Returned(t) /\ thr[t].handler # None => Released(Val(thr[t].handler))

\* a run that opened a filesystem, was stopped before its emission and
\* returned early
C30_Witness ==
    \E t \in Tasks :
        /\ Returned(t) /\ Stopped(t)
        /\ thr[t].handler # None
        /\ thr[t].success
        /\ Count(log[t], {"filesystem_opened", "directory_listing_ready",
                          "error", "finished"}) = 0

\* C31 (as claimed): while the thread of a disk task runs, the browse
\* control is disabled and the tab's image path is the one the task's worker
\* was given.
C31_ImageFrozenInFlight ==
    \A t \in Tasks :
        IsRunning(t) =>
            /\ ~tab.browse_enabled
            /\ tab.image_path = Some(thr[t].image_path)

\* C32 (as claimed): whenever no image is selected, the navigation context
\* is empty, the volume table is empty and no task's thread runs.
C32_NoImageNothingLeft ==
    tab.image_path = None =>
        /\ NavContext = << None, None, FALSE >>
        /\ tab.volume_table = << >>
        /\ \A t \in Tasks : ~IsRunning(t)

\* C33: after any sequence of open_filesystem calls, fs_info and
\* partition_offset of the handler are set exactly when the most recent call
\* returned True (and are both None before the first call).
C33_FsOpenIffLastTrue ==
    LET h == Val(thr[1].handler)
    IN  /\ h.fs_info # None <=> thr[1].success
        /\ h.partition_offset # None <=> thr[1].success

\* a call that failed right after one that had opened a filesystem
C33_Witness ==
    /\ log[1] = << "True", "False" >>
    /\ ~thr[1].success
    /\ Val(thr[1].handler).fs_info = None
    /\ Val(thr[1].handler).partition_offset = None

\* the last list_directory call of the handler in thr[t] failed: open_dir
\* raised, or the loop met an entry it could not read
ListingFailed(t) ==
    \/ ListedDirectory(t) = None
    \/ IterationFails(Val(ListedDirectory(t)).entries,
                      Val(ListedDirectory(t)).addr)

\* C34: no exception leaves list_directory; without an open filesystem it
\* returns an empty list and calls no collaborator; when open_dir or the
\* iteration fails it returns an empty list, whatever it had collected.
C34_ListDirectoryNeverRaises ==
    \A t \in Tasks :
        thr[t].pc = "list_directory" =>
            /\ thr[t].raised = None
            /\ Val(thr[t].handler).fs_info = None =>
                  thr[t].result = << >> /\ thr[t].collab = << >>
            /\ Val(thr[t].handler).fs_info # None /\ ListingFailed(t) =>
                  thr[t].result = << >> /\ thr[t].collab = << "open_dir" >>

\* a directory was listed whose iteration failed after an entry had been
\* collected
C34_Witness ==
    \E t \in Tasks :
        /\ thr[t].pc = "list_directory"
        /\ Val(thr[t].handler).fs_info # None
        /\ ListedDirectory(t) # None
        /\ LET d == Val(ListedDirectory(t))
           IN  \E i, j \in DOMAIN d.entries :
                  /\ i < j
                  /\ ~Skipped(d.entries[i], d.addr) /\ d.entries[i].type # NoMeta
                  /\ ~Skipped(d.entries[j], d.addr) /\ d.entries[j].type = NoMeta
        /\ thr[t].result = << >>

\* a hash task or a metadata task of UtilityTab is in flight
UtilityInFlight ==
    \/ tab.hash_thread # None /\ IsRunning(Val(tab.hash_thread))
    \/ tab.metadata_thread # None /\ IsRunning(Val(tab.metadata_thread))

\* C35 (as claimed): in UtilityTab the browse control is disabled whenever
\* a hash task or a metadata task is in flight.
C35_BrowseDisabledInFlight ==
    UtilityInFlight => ~tab.browse_enabled

\* the two endpoints of a packet or of a conversation, without direction
Endpoints(ip1, port1, ip2, port2) == {<< ip1, port1 >>, << ip2, port2 >>}

\* the packet belongs to the conversation: same protocol name, same two
\* endpoints in either direction
InConversation(pkt, c) ==
    /\ pkt.ip
    /\ c.protocol = (IF pkt.l4 \in {"TCP", "UDP"} THEN pkt.l4 ELSE "IP")
    /\ Endpoints(c.src_ip, c.src_port, c.dst_ip, c.dst_port)
         = Endpoints(pkt.src, IF pkt.l4 \in {"TCP", "UDP"} THEN pkt.sport ELSE NA,
                     pkt.dst, IF pkt.l4 \in {"TCP", "UDP"} THEN pkt.dport ELSE NA)

RECURSIVE SumCounts(_)
SumCounts(cs) ==
    IF cs = << >> THEN 0 ELSE Head(cs).packet_count + SumCounts(Tail(cs))

====
